---- MODULE Spec2Model ----
(***************************************************************************)
(* A model of analysis/scripts/data_loader.py: SimulationDataLoader, its   *)
(* three projections of a statistics document into tables, get_metadata,   *)
(* load_all_data and the convenience function load_simulation.             *)
(*                                                                         *)
(* JSON values are tagged records.  A series-level value is                *)
(*   [kind |-> "array",  items |-> <<its elements>>]                       *)
(*   [kind |-> "null",   items |-> <<>>]                                   *)
(*   [kind |-> "object", items |-> <<its members' values>>]                *)
(* the value under "data" is [kind |-> "object", entries |-> a mapping] or *)
(* [kind |-> "null", ...], and a Python dict is a function whose DOMAIN is *)
(* its key set.                                                            *)
(***************************************************************************)
EXTENDS Integers, Sequences, FiniteSets, TLC

VARIABLES
    data_dir,   \* self.data_dir of the loader
    fs,         \* the file system: <<directory, file name>> -> file content
    stats,      \* the in-memory statistics document the caller holds
    last,       \* the most recent call: operation, argument and its outcome
    stdout,     \* the warnings the most recent call wrote to standard output
    recording,  \* whether this behaviour keeps a history of its calls
    log         \* history: call -> the outcome of its first occurrence

vars == <<data_dir, fs, stats, last, stdout, recording, log>>

(***************************************************************************)
(* Bounds of the model.                                                    *)
(***************************************************************************)
MaxLen == 3      \* longest series of a document
MaxCalls == 3    \* distinct calls followed in a recorded history

(***************************************************************************)
(* Python values.                                                          *)
(***************************************************************************)
None == -1       \* Python's None; every number of a model document is >= 0

Array(items) == [kind |-> "array", items |-> items]

Null == [kind |-> "null", items |-> <<>>]

Object(values) == [kind |-> "object", items |-> values]

EmptyList == Array(<<>>)

EmptyDict == [k \in {} |-> None]

DataObject(entries) == [kind |-> "object", entries |-> entries]

DataNull == [kind |-> "null", entries |-> EmptyDict]

\* dict.get(key, default)
DictGet(d, key, default) == IF key \in DOMAIN d THEN d[key] ELSE default

\* The outcome of a call: a returned value, or a raised exception.
Return(v) == [status |-> "return", error |-> "", msg |-> "", value |-> v]

Raise(e, m) == [status |-> "raise", error |-> e, msg |-> m, value |-> None]

Min(S) == CHOOSE x \in S : \A y \in S : x <= y

(***************************************************************************)
(* pandas: DataFrame(records), DataFrame() and df['step'] = range(len(df)).*)
(* A table is its column labels, in order, and its rows; a row maps each   *)
(* column label to the cell's value.                                       *)
(***************************************************************************)
\* pd.DataFrame(records): the columns are the keys of the record dicts, so a
\* frame built from no record has no column at all.
DataFrame(records, keys) ==
    IF records = <<>> THEN [columns |-> <<>>, rows |-> <<>>]
    ELSE [columns |-> keys, rows |-> records]

EmptyDataFrame == DataFrame(<<>>, <<>>)

\* A variant of WithStep that numbers the rows from one.
WithStepFromOne(df) ==
    [columns |-> Append(df.columns, "step"),
     rows |-> [i \in 1..Len(df.rows) |->
                 [c \in DOMAIN df.rows[i] \cup {"step"} |->
                    IF c = "step" THEN i ELSE df.rows[i][c]]]]

\* df['step'] = range(len(df))
WithStep(df) ==
    [columns |-> Append(df.columns, "step"),
     rows |-> [i \in 1..Len(df.rows) |->
                 [c \in DOMAIN df.rows[i] \cup {"step"} |->
                    IF c = "step" THEN i - 1 ELSE df.rows[i][c]]]]

(***************************************************************************)
(* The three projections.  Each pairs the series it reads with the output  *)
(* field it fills, in the order of the record literal.                     *)
(***************************************************************************)
PopulationFields ==
    << <<"aliveOrganisms", "alive_organisms">>,
       <<"foodCount", "food_count">>,
       <<"averageEnergy", "average_energy">> >>

SpeciesFields ==
    << <<"speciesCount", "species_count">>,
       <<"topSpeciesCount", "top_species_count">> >>

InteractionsFields ==
    << <<"combatKills", "combat_kills">>,
       <<"cooperationEvents", "cooperation_events">>,
       <<"averageGenomeLength", "average_genome_length">> >>

\* A variant of Cell whose bounds check is i <= len: it indexes one past the
\* end of the series.
CellOffByOne(data, key, i) ==
    LET s == DictGet(data, key, EmptyList)
    IN  IF s.kind = "null"
        THEN Raise("TypeError", "object of type 'NoneType' has no len()")
        ELSE IF i <= Len(s.items)
             THEN IF s.kind = "object"
                  THEN Raise("KeyError", ToString(i))
                  ELSE IF i < Len(s.items)
                       THEN Return(s.items[i + 1])
                       ELSE Raise("IndexError", "list index out of range")
             ELSE Return(None)

\* data.get(key, [])[i] if i < len(data.get(key, [])) else None   (i from 0)
\* len(None) raises TypeError; a dict has a length, and indexing it with the
\* integer i raises KeyError(i), the keys of a JSON object being strings.
Cell(data, key, i) ==
    LET s == DictGet(data, key, EmptyList)
    IN  IF s.kind = "null"
        THEN Raise("TypeError", "object of type 'NoneType' has no len()")
        ELSE IF i < Len(s.items)
             THEN IF s.kind = "object"
                  THEN Raise("KeyError", ToString(i))
                  ELSE Return(s.items[i + 1])
             ELSE Return(None)

\* The record literal of one loop iteration: 'time', then the fields in
\* order; the first cell that raises ends the evaluation.
Record(data, fields, i, time) ==
    LET cells == [j \in 1..Len(fields) |-> Cell(data, fields[j][1], i)]
        bad == {j \in 1..Len(fields) : cells[j].status = "raise"}
        names == {fields[j][2] : j \in 1..Len(fields)}
    IN  IF bad # {}
        THEN cells[Min(bad)]
        ELSE Return([c \in {"time"} \cup names |->
                       IF c = "time" THEN time
                       ELSE cells[CHOOSE j \in 1..Len(fields) : fields[j][2] = c].value])

\* The body shared by to_population_dataframe, to_species_dataframe and
\* to_interactions_dataframe.
ToDataframe(doc, fields) ==
    IF "data" \notin DOMAIN doc
    THEN Raise("ValueError", "No data found in statistics")
    ELSE LET data == doc["data"]
         IN  IF data.kind # "object"
             THEN Raise("AttributeError", "'NoneType' object has no attribute 'get'")
             ELSE LET time == DictGet(data.entries, "time", EmptyList)
                  IN  IF time.kind = "null"
                      THEN Raise("TypeError", "'NoneType' object is not iterable")
                      ELSE LET n == Len(time.items)
                               recs == [i \in 1..n |->
                                          Record(data.entries, fields, i - 1, time.items[i])]
                               bad == {i \in 1..n : recs[i].status = "raise"}
                               keys == <<"time">> \o [j \in 1..Len(fields) |-> fields[j][2]]
                           IN  IF bad # {}
                               THEN recs[Min(bad)]
                               ELSE Return(WithStep(DataFrame(
                                        [i \in 1..n |-> recs[i].value], keys)))

ToPopulationDataframe(doc) == ToDataframe(doc, PopulationFields)

ToSpeciesDataframe(doc) == ToDataframe(doc, SpeciesFields)

ToInteractionsDataframe(doc) == ToDataframe(doc, InteractionsFields)

\* A variant of GetMetadata that subscripts: stats['metadata'].
GetMetadataSubscript(doc) ==
    IF "metadata" \in DOMAIN doc THEN Return(doc["metadata"])
    ELSE Raise("KeyError", "'metadata'")

\* stats.get('metadata', {})
GetMetadata(doc) == Return(DictGet(doc, "metadata", EmptyDict))

(***************************************************************************)
(* The file system and load_statistics.  A file is absent, holds text that *)
(* is not JSON, or holds one JSON document.                                *)
(***************************************************************************)
Absent == [kind |-> "absent", doc |-> EmptyDict]

Garbage == [kind |-> "garbage", doc |-> EmptyDict]

Json(doc) == [kind |-> "json", doc |-> doc]

\* open(self.data_dir / filename) and json.load(f)
LoadStatistics(dir, files, filename) ==
    LET f == files[<<dir, filename>>]
    IN  IF f.kind = "absent"
        THEN Raise("FileNotFoundError", "No such file or directory")
        ELSE IF f.kind = "garbage"
             THEN Raise("JSONDecodeError", "Expecting value")
             ELSE Return(f.doc)

(***************************************************************************)
(* load_all_data: the read, three try/except blocks, the metadata.         *)
(***************************************************************************)
\* A variant of the except clause that leaves ValueError out.
ExceptLookupErrors == {"KeyError", "IndexError"}

\* except (ValueError, KeyError, IndexError)
ExceptClause == {"ValueError", "KeyError", "IndexError"}

\* json.JSONDecodeError is a subclass of ValueError.
IsCaught(e) == e \in ExceptClause \/ (e = "JSONDecodeError" /\ "ValueError" \in ExceptClause)

\* print(f"Warning: Could not load {table} data: {e}")
Warning(table, o) == [table |-> table, cause |-> o.msg]

\* A variant of TryTable whose handler writes the warning and stores no
\* table.
TryTableWarningOnly(s, table, o) ==
    IF s.exc.status = "raise" THEN s
    ELSE IF o.status = "return"
         THEN [s EXCEPT !.result = (table :> o.value) @@ @]
         ELSE IF IsCaught(o.error)
              THEN [s EXCEPT !.written = Append(@, Warning(table, o))]
              ELSE [s EXCEPT !.exc = o]

\* One try/except block.  s is the state of the call so far: the result
\* dict, the warnings written, and the exception that left the function.
TryTable(s, table, o) ==
    IF s.exc.status = "raise" THEN s
    ELSE IF o.status = "return"
         THEN [s EXCEPT !.result = (table :> o.value) @@ @]
         ELSE IF IsCaught(o.error)
              THEN [s EXCEPT !.result = (table :> EmptyDataFrame) @@ @,
                             !.written = Append(@, Warning(table, o))]
              ELSE [s EXCEPT !.exc = o]

\* A variant of LoadAllData whose read sits inside the first try block, so
\* that a caught read error yields a bundle of empty tables.
LoadAllDataGuardedRead(dir, files, filename) ==
    LET read == LoadStatistics(dir, files, filename)
        doc == IF read.status = "raise" THEN EmptyDict ELSE read.value
        s0 == [result |-> EmptyDict, written |-> <<>>, exc |-> Return(None)]
        s1 == TryTable(s0, "population",
                       IF read.status = "raise" THEN read ELSE ToPopulationDataframe(doc))
        s2 == TryTable(s1, "species", ToSpeciesDataframe(doc))
        s3 == TryTable(s2, "interactions", ToInteractionsDataframe(doc))
    IN  IF s3.exc.status = "raise"
        THEN [outcome |-> s3.exc, written |-> s3.written]
        ELSE [outcome |-> Return(("metadata" :> GetMetadata(doc).value) @@ s3.result),
              written |-> s3.written]

\* load_all_data(filename) of a loader whose data_dir is dir: what it returns
\* or raises, and what it wrote.
LoadAllData(dir, files, filename) ==
    LET read == LoadStatistics(dir, files, filename)
    IN  IF read.status = "raise"
        THEN [outcome |-> read, written |-> <<>>]
        ELSE LET doc == read.value
                 s0 == [result |-> EmptyDict, written |-> <<>>, exc |-> Return(None)]
                 s1 == TryTable(s0, "population", ToPopulationDataframe(doc))
                 s2 == TryTable(s1, "species", ToSpeciesDataframe(doc))
                 s3 == TryTable(s2, "interactions", ToInteractionsDataframe(doc))
             IN  IF s3.exc.status = "raise"
                 THEN [outcome |-> s3.exc, written |-> s3.written]
                 ELSE [outcome |-> Return(("metadata" :> GetMetadata(doc).value) @@ s3.result),
                       written |-> s3.written]

\* load_simulation(filename, data_dir): a new loader, then load_all_data.
LoadSimulation(filename, dir, files) == LoadAllData(dir, files, filename)

(***************************************************************************)
(* The documents, directories and files the model draws its inputs from.   *)
(***************************************************************************)
SeriesKeys ==
    <<"aliveOrganisms", "foodCount", "averageEnergy", "speciesCount",
      "topSpeciesCount", "combatKills", "cooperationEvents", "averageGenomeLength">>

KeyIndex(key) == CHOOSE j \in 1..Len(SeriesKeys) : SeriesKeys[j] = key

\* The first n elements of the series named key: 10, 9, 8, ... for
\* aliveOrganisms, 20, 19, ... for foodCount, and so on; no two series share
\* an element.
Items(key, n) == [i \in 1..n |-> 10 * KeyIndex(key) - (i - 1)]

\* What a document may hold under a series key: an array of any length up to
\* MaxLen, null, an empty object or an object of one member.
Shapes(key) ==
    {Null, Object(<<>>), Object(<<7>>)} \cup {Array(Items(key, n)) : n \in 0..MaxLen}

TimeStrides == {1, 5}

TimeArray(stride, n) == Array([i \in 1..n |-> stride * (i - 1)])

\* What a document may hold under "time": 0, 1, 2, ... or 0, 5, 10, ..., or null.
Times == {Null} \cup {TimeArray(stride, n) : stride \in TimeStrides, n \in 0..MaxLen}

\* Data mappings of at most one metric series, of any shape, with any time
\* series or none.
SingleSeriesMappings ==
    LET metric == {EmptyDict} \cup
                  UNION {{SeriesKeys[j] :> v : v \in Shapes(SeriesKeys[j])} :
                            j \in 1..Len(SeriesKeys)}
    IN  metric \cup {("time" :> t) @@ m : t \in Times, m \in metric}

\* Data mappings that hold every series of one projection, each an array of
\* its own length, beside a time series of MaxLen elements.
RaggedMappings(fields) ==
    LET keys == {fields[j][1] : j \in 1..Len(fields)}
    IN  {("time" :> TimeArray(1, MaxLen)) @@ [k \in keys |-> Array(Items(k, len[k]))] :
            len \in [keys -> 0..MaxLen]}

DataMappings ==
    SingleSeriesMappings \cup RaggedMappings(PopulationFields)
        \cup RaggedMappings(SpeciesFields) \cup RaggedMappings(InteractionsFields)

\* {"data": {"time": [0, 1, 2], "aliveOrganisms": [10, 9]}}
ExampleData == ("time" :> Array(<<0, 1, 2>>)) @@ ("aliveOrganisms" :> Array(<<10, 9>>))

\* Documents without metadata: no key at all, "data": null, or a data mapping.
DataDocuments ==
    {EmptyDict, "data" :> DataNull} \cup {"data" :> DataObject(m) : m \in DataMappings}

Metadatas == {EmptyDict, "seed" :> 42, ("seed" :> 42) @@ ("worldSize" :> 800)}

\* Documents with metadata, over a few data values.
MetadataDocuments ==
    {("metadata" :> md) @@ d :
        md \in Metadatas,
        d \in {EmptyDict, "data" :> DataNull, "data" :> DataObject(ExampleData)}}

Documents == DataDocuments \cup MetadataDocuments

\* The documents whose call histories are followed.
HistoryDocuments ==
    {EmptyDict,
     ("metadata" :> ("seed" :> 42)) @@ ("data" :> DataObject(ExampleData)),
     "data" :> DataObject(("time" :> Array(<<0, 5>>)) @@ ("combatKills" :> Object(<<7>>))),
     "data" :> DataObject(("time" :> Array(<<0>>)) @@ ("speciesCount" :> Null))}

DefaultDir == "../data"

Dirs == {DefaultDir, "exports"}

Files == {"stats.json", "bad.json", "missing.json"}

\* Both directories hold the document as stats.json; the default directory
\* also holds bad.json, which is not JSON; nothing else exists.
Layout(doc) ==
    [p \in Dirs \X Files |->
        IF p[2] = "stats.json" THEN Json(doc)
        ELSE IF p = <<DefaultDir, "bad.json">> THEN Garbage
        ELSE Absent]

(***************************************************************************)
(* The state machine: a loader, a file system and a caller that makes one  *)
(* call at a time.                                                         *)
(***************************************************************************)
\* A call as the caller sees it; again tells whether the history already
\* holds an earlier occurrence of the same call.
Call(op, arg, o) ==
    [op |-> op, arg |-> arg, status |-> o.status, error |-> o.error,
     msg |-> o.msg, value |-> o.value, again |-> (<<op>> \o arg) \in DOMAIN log]

NoCall ==
    [op |-> "", arg |-> <<>>, status |-> "return", error |-> "", msg |-> "",
     value |-> None, again |-> FALSE]

Outcome(call) == [status |-> call.status, error |-> call.error, msg |-> call.msg, value |-> call.value]

CallKey(call) == <<call.op>> \o call.arg

\* The history keeps the outcome of the first occurrence of each call, for
\* at most MaxCalls different calls.
Recorded ==
    /\ log' = IF recording /\ CallKey(last') \notin DOMAIN log
              THEN (CallKey(last') :> Outcome(last')) @@ log
              ELSE log
    /\ Cardinality(DOMAIN log') <= MaxCalls
    /\ UNCHANGED recording

\* SimulationDataLoader(data_dir), with a document in hand and on disk.
InitOver(docs) ==
    /\ data_dir \in Dirs
    /\ \E doc \in docs : fs = Layout(doc) /\ stats = doc
    /\ last = NoCall
    /\ stdout = <<>>
    /\ log = EmptyDict

Init == InitOver(Documents) /\ recording = FALSE

InitHistory == InitOver(HistoryDocuments) /\ recording = TRUE

\* A variant of CallLoadStatistics that keeps the directory of its last read
\* in self.data_dir.
CallLoadStatisticsRebasing(filename) ==
    LET o == LoadStatistics(data_dir, fs, filename)
    IN  /\ last' = Call("load_statistics", <<filename>>, o)
        /\ stats' = IF o.status = "return" THEN o.value ELSE stats
        /\ stdout' = <<>>
        /\ data_dir' = "exports"
        /\ UNCHANGED fs
        /\ Recorded

\* stats = loader.load_statistics(filename)
CallLoadStatistics(filename) ==
    LET o == LoadStatistics(data_dir, fs, filename)
    IN  /\ last' = Call("load_statistics", <<filename>>, o)
        /\ stats' = IF o.status = "return" THEN o.value ELSE stats
        /\ stdout' = <<>>
        /\ UNCHANGED <<data_dir, fs>>
        /\ Recorded

\* loader.to_population_dataframe(stats)
CallToPopulationDataframe ==
    /\ last' = Call("to_population_dataframe", <<>>, ToPopulationDataframe(stats))
    /\ stdout' = <<>>
    /\ UNCHANGED <<data_dir, fs, stats>>
    /\ Recorded

\* A variant of CallToSpeciesDataframe that consumes the time series of the
\* document it is given (data['time'].pop(0) in the loop).
CallToSpeciesDataframeDraining ==
    /\ last' = Call("to_species_dataframe", <<>>, ToSpeciesDataframe(stats))
    /\ stdout' = <<>>
    /\ stats' = IF /\ "data" \in DOMAIN stats
                   /\ stats["data"].kind = "object"
                   /\ "time" \in DOMAIN stats["data"].entries
                   /\ stats["data"].entries["time"].kind = "array"
                THEN [stats EXCEPT !["data"].entries["time"].items = <<>>]
                ELSE stats
    /\ UNCHANGED <<data_dir, fs>>
    /\ Recorded

\* loader.to_species_dataframe(stats)
CallToSpeciesDataframe ==
    /\ last' = Call("to_species_dataframe", <<>>, ToSpeciesDataframe(stats))
    /\ stdout' = <<>>
    /\ UNCHANGED <<data_dir, fs, stats>>
    /\ Recorded

\* loader.to_interactions_dataframe(stats)
CallToInteractionsDataframe ==
    /\ last' = Call("to_interactions_dataframe", <<>>, ToInteractionsDataframe(stats))
    /\ stdout' = <<>>
    /\ UNCHANGED <<data_dir, fs, stats>>
    /\ Recorded

\* loader.get_metadata(stats)
CallGetMetadata ==
    /\ last' = Call("get_metadata", <<>>, GetMetadata(stats))
    /\ stdout' = <<>>
    /\ UNCHANGED <<data_dir, fs, stats>>
    /\ Recorded

\* loader.load_all_data(filename)
CallLoadAllData(filename) ==
    LET r == LoadAllData(data_dir, fs, filename)
    IN  /\ last' = Call("load_all_data", <<filename>>, r.outcome)
        /\ stdout' = r.written
        /\ UNCHANGED <<data_dir, fs, stats>>
        /\ Recorded

\* load_simulation(filename, dir)
CallLoadSimulation(filename, dir) ==
    LET r == LoadSimulation(filename, dir, fs)
    IN  /\ last' = Call("load_simulation", <<filename, dir>>, r.outcome)
        /\ stdout' = r.written
        /\ UNCHANGED <<data_dir, fs, stats>>
        /\ Recorded

Next ==
    \/ \E filename \in Files : CallLoadStatistics(filename)
    \/ CallToPopulationDataframe
    \/ CallToSpeciesDataframe
    \/ CallToInteractionsDataframe
    \/ CallGetMetadata
    \/ \E filename \in Files : CallLoadAllData(filename)
    \/ \E filename \in Files, dir \in Dirs : CallLoadSimulation(filename, dir)

Spec == Init /\ [][Next]_vars

SpecHistory == InitHistory /\ [][Next]_vars

(***************************************************************************)
(* Vocabulary of the properties.                                           *)
(***************************************************************************)
ProjectionOps ==
    {"to_population_dataframe", "to_species_dataframe", "to_interactions_dataframe"}

Tables == <<"population", "species", "interactions">>

FieldsOf(op) ==
    IF op \in {"to_population_dataframe", "population"} THEN PopulationFields
    ELSE IF op \in {"to_species_dataframe", "species"} THEN SpeciesFields
    ELSE InteractionsFields

HasDataMapping(doc) == "data" \in DOMAIN doc /\ doc["data"].kind = "object"

\* The series a document holds under key, the empty sequence when absent.
SeriesOf(doc, key) == DictGet(doc["data"].entries, key, EmptyList)

\* time and every series the projection reads are sequences, or absent.
WellFormedFor(doc, fields) ==
    /\ HasDataMapping(doc)
    /\ SeriesOf(doc, "time").kind = "array"
    /\ \A j \in 1..Len(fields) : SeriesOf(doc, fields[j][1]).kind = "array"

Returned == last.status = "return"

\* The last call was a projection of the document in hand.
Projected == last.op \in ProjectionOps

\* The last call was load_all_data or load_simulation; the directory and the
\* file it read.
LoadedAll == last.op \in {"load_all_data", "load_simulation"}

ReadDir == IF last.op = "load_simulation" THEN last.arg[2] ELSE data_dir

ReadFile == fs[<<ReadDir, last.arg[1]>>]

(***************************************************************************)
(* Properties of the projections.                                          *)
(***************************************************************************)
\* C1: a projection of a document with a data mapping whose series are
\* sequences returns a table; every table a projection returns has exactly
\* len(data.time) rows (none when time is absent), row i carries time =
\* data.time[i], and step is 0, 1, ..., n-1 in row order.
C1_RowsFollowTime ==
    Projected /\ HasDataMapping(stats) =>
        /\ WellFormedFor(stats, FieldsOf(last.op)) => Returned
        /\ Returned =>
            LET time == SeriesOf(stats, "time").items
                rows == last.value.rows
            IN  /\ Len(rows) = Len(time)
                /\ "time" \notin DOMAIN stats["data"].entries => Len(rows) = 0
                /\ \A i \in 1..Len(rows) : rows[i]["time"] = time[i] /\ rows[i]["step"] = i - 1

\* C1 witness: the interactions table of a document whose time series is
\* 0, 5, 10 and whose other series have other lengths: step 2 at time 10.
C1_Witness ==
    /\ last.op = "to_interactions_dataframe" /\ Returned
    /\ SeriesOf(stats, "time") = Array(<<0, 5, 10>>)
    /\ SeriesOf(stats, "combatKills").items = <<60>>
    /\ Len(last.value.rows) = 3
    /\ last.value.rows[3]["time"] = 10 /\ last.value.rows[3]["step"] = 2

\* C2: in the table a projection returns, the field of row i for series s is
\* s[i] when i < len(s) and None otherwise, an absent series counting as
\* empty; and a series shorter than time, or absent, raises nothing.
C2_CellsFollowSeries ==
    Projected /\ HasDataMapping(stats) =>
        /\ WellFormedFor(stats, FieldsOf(last.op)) => Returned
        /\ Returned =>
            \A i \in 1..Len(last.value.rows) : \A j \in 1..Len(FieldsOf(last.op)) :
                LET s == SeriesOf(stats, FieldsOf(last.op)[j][1]).items
                    cell == last.value.rows[i][FieldsOf(last.op)[j][2]]
                IN  cell = IF i - 1 < Len(s) THEN s[i] ELSE None

\* C2 witness: the population table of {"data": {"time": [0, 1, 2],
\* "aliveOrganisms": [10, 9]}}.
C2_Witness ==
    /\ last.op = "to_population_dataframe" /\ Returned
    /\ stats = ("data" :> DataObject(ExampleData))
    /\ last.value.rows =
         << [time |-> 0, alive_organisms |-> 10, food_count |-> None,
             average_energy |-> None, step |-> 0],
            [time |-> 1, alive_organisms |-> 9, food_count |-> None,
             average_energy |-> None, step |-> 1],
            [time |-> 2, alive_organisms |-> None, food_count |-> None,
             average_energy |-> None, step |-> 2] >>

(***************************************************************************)
(* Properties of load_all_data, load_simulation and get_metadata.          *)
(***************************************************************************)
\* C3: for a document without a data key, a direct projection call raises
\* ValueError ("No data found in statistics"), while load_all_data of that
\* document returns a bundle in which each of the three tables is empty,
\* with a warning naming each table and its cause, and the metadata entry is
\* still filled.
C3_MissingDataDowngraded ==
    /\ Projected /\ "data" \notin DOMAIN stats =>
           /\ last.status = "raise" /\ last.error = "ValueError"
           /\ last.msg = "No data found in statistics"
    /\ LoadedAll /\ ReadFile.kind = "json" /\ "data" \notin DOMAIN ReadFile.doc =>
           /\ Returned
           /\ \A t \in 1..Len(Tables) :
                 /\ last.value[Tables[t]] = EmptyDataFrame
                 /\ \E w \in 1..Len(stdout) :
                       stdout[w].table = Tables[t] /\ stdout[w].cause # ""
           /\ last.value["metadata"] = DictGet(ReadFile.doc, "metadata", EmptyDict)

\* C3 witness: load_all_data of a file whose document has metadata and no
\* data has returned its bundle.
C3_Witness ==
    /\ last.op = "load_all_data" /\ Returned
    /\ ReadFile.doc = ("metadata" :> ("seed" :> 42))
    /\ Len(stdout) = 3
    /\ last.value["population"] = EmptyDataFrame

\* C4: when the read fails (the file is missing or is not JSON),
\* load_all_data and load_simulation raise the error of load_statistics,
\* write no warning and return no bundle.
C4_ReadFailurePropagates ==
    LoadedAll /\ ReadFile.kind # "json" =>
        /\ last.status = "raise"
        /\ Outcome(last) = LoadStatistics(ReadDir, fs, last.arg[1])
        /\ last.error = IF ReadFile.kind = "absent" THEN "FileNotFoundError"
                        ELSE "JSONDecodeError"
        /\ stdout = <<>>
        /\ last.value = None

\* C4 witness: load_simulation of a file that is not JSON has raised.
C4_Witness ==
    /\ last.op = "load_simulation" /\ last.arg = <<"bad.json", DefaultDir>>
    /\ last.status = "raise" /\ last.error = "JSONDecodeError"

\* C5: once the read has succeeded, load_all_data returns a bundle, whatever
\* the document: a failing projection becomes an empty table and a warning.
C5_AlwaysABundle ==
    LoadedAll /\ ReadFile.kind = "json" =>
        /\ Returned
        /\ \A t \in 1..Len(Tables) :
              ToDataframe(ReadFile.doc, FieldsOf(Tables[t])).status = "raise" =>
                  last.value[Tables[t]] = EmptyDataFrame

\* C6: get_metadata returns, never raises: the empty mapping when the
\* document has no metadata key, the stored mapping otherwise; load_all_data
\* puts the same value under the metadata key of its bundle.
C6_MetadataPassedThrough ==
    /\ last.op = "get_metadata" =>
           /\ Returned
           /\ "metadata" \notin DOMAIN stats => last.value = EmptyDict
           /\ "metadata" \in DOMAIN stats => last.value = stats["metadata"]
    /\ LoadedAll /\ Returned =>
           /\ "metadata" \notin DOMAIN ReadFile.doc => last.value["metadata"] = EmptyDict
           /\ "metadata" \in DOMAIN ReadFile.doc =>
                 last.value["metadata"] = ReadFile.doc["metadata"]

\* C6 witness: get_metadata of a document with two metadata entries.
C6_Witness ==
    /\ last.op = "get_metadata" /\ Returned
    /\ "metadata" \in DOMAIN stats
    /\ last.value = ("seed" :> 42) @@ ("worldSize" :> 800)

\* C7: every table a projection returns for a document with a data mapping
\* has exactly the columns time, the projection's output fields and step.
C7_ColumnSet ==
    Projected /\ HasDataMapping(stats) /\ Returned =>
        {last.value.columns[c] : c \in 1..Len(last.value.columns)} =
            {"time", "step"} \cup
            {FieldsOf(last.op)[j][2] : j \in 1..Len(FieldsOf(last.op))}

\* The projection named by table was downgraded in the returned bundle.
Downgraded(table) == last.value[table] = EmptyDataFrame

\* The tables the warnings name, in the order written.
WarnedTables == [w \in 1..Len(stdout) |-> stdout[w].table]

\* The document has a data mapping with a non-empty time series and, among
\* the series the projection reads, a non-empty JSON object: indexing it
\* raises KeyError.
IndexesAnObject(doc, fields) ==
    /\ HasDataMapping(doc)
    /\ Len(SeriesOf(doc, "time").items) > 0
    /\ \E j \in 1..Len(fields) :
          /\ SeriesOf(doc, fields[j][1]).kind = "object"
          /\ Len(SeriesOf(doc, fields[j][1]).items) > 0

\* C10 as claimed: in every bundle either all three projections are
\* downgraded, with three warnings in the order population, species,
\* interactions, or none is and nothing is written; the bundle has exactly
\* the keys population, species, interactions and metadata.
C10_AllOrNothing ==
    LoadedAll /\ Returned =>
        /\ DOMAIN last.value = {"population", "species", "interactions", "metadata"}
        /\ \/ (\A t \in 1..Len(Tables) : Downgraded(Tables[t])) /\ WarnedTables = Tables
           \/ (\A t \in 1..Len(Tables) : ~Downgraded(Tables[t])) /\ stdout = <<>>

\* C10 amended: every bundle has exactly the four keys, and one warning per
\* downgraded projection, in the order population, species, interactions.
\* Without a data key all three projections are downgraded; with one, a
\* projection is downgraded exactly when it indexes a series that is a JSON
\* object; so a document none of whose series is an object has all three
\* downgraded or none.
C10_DowngradedPerProjection ==
    LoadedAll /\ Returned =>
        LET doc == ReadFile.doc
        IN  /\ DOMAIN last.value = {"population", "species", "interactions", "metadata"}
            /\ WarnedTables = SelectSeq(Tables, Downgraded)
            /\ "data" \notin DOMAIN doc => \A t \in 1..Len(Tables) : Downgraded(Tables[t])
            /\ "data" \in DOMAIN doc =>
                  \A t \in 1..Len(Tables) :
                      Downgraded(Tables[t]) <=> IndexesAnObject(doc, FieldsOf(Tables[t]))
            /\ (\A t \in 1..Len(Tables) : ~IndexesAnObject(doc, FieldsOf(Tables[t]))) =>
                  \/ (\A t \in 1..Len(Tables) : Downgraded(Tables[t])) /\ WarnedTables = Tables
                  \/ (\A t \in 1..Len(Tables) : ~Downgraded(Tables[t])) /\ stdout = <<>>

\* C10 witness: a bundle in which only the interactions table was
\* downgraded, by KeyError(0), beside a population table of two rows.
C10_Witness ==
    /\ last.op = "load_all_data" /\ Returned
    /\ stdout = <<[table |-> "interactions", cause |-> "0"]>>
    /\ Len(last.value["population"].rows) = 2
    /\ Downgraded("interactions")

(***************************************************************************)
(* Properties of call histories.                                           *)
(***************************************************************************)
\* C8: a projection called again on the document in hand, whatever calls
\* were made in between, gives the outcome of its first call: the same
\* table, row for row, or the same error.
C8_ProjectionIdempotent ==
    Projected /\ last.again => Outcome(last) = log[CallKey(last)]

\* C8 witness: the species projection was repeated, in a history that holds
\* other calls, and returned a table with rows.
C8_Witness ==
    /\ last.op = "to_species_dataframe" /\ last.again /\ Returned
    /\ Len(last.value.rows) > 0
    /\ <<"load_all_data", "stats.json">> \in DOMAIN log
    /\ <<"get_metadata">> \in DOMAIN log

\* C9: no call retains or changes state: data_dir and the files never
\* change, a projection or get_metadata leaves the document in hand as it
\* was, and any call made again gives the outcome of its first occurrence.
C9_NoRetainedState ==
    /\ [](last.again => Outcome(last) = log[CallKey(last)])
    /\ [][/\ data_dir' = data_dir
          /\ fs' = fs
          /\ last'.op \in ProjectionOps \cup {"get_metadata"} => stats' = stats]_vars

\* C9 witness: load_all_data was repeated by a loader constructed on
\* "exports", after failing calls, and wrote its warnings again.
C9_Witness ==
    /\ last.op = "load_all_data" /\ last.again /\ Returned
    /\ data_dir = "exports"
    /\ Len(stdout) = 3
    /\ \E f \in Files : /\ <<"load_statistics", f>> \in DOMAIN log
                        /\ log[<<"load_statistics", f>>].status = "raise"

====
